---- MODULE Spec2Model ----
(***************************************************************************)
(* GeocodingService of bmlt-query-client (src/src/services/geocoding.ts):  *)
(* geocode / reverseGeocode / batchGeocode calls admitted through a        *)
(* rate-limited queue, each running a retry loop around one HTTP call.     *)
(* Time is measured in milliseconds and advances in steps of half the      *)
(* default rate-limit interval.                                            *)
(***************************************************************************)
EXTENDS Integers, Sequences, FiniteSets, TLC

\* ------------------------------------------------------------------ bounds
\* Number of calls submitted in one behaviour of SpecQueue.
MaxCalls == 3
\* Number of calls submitted in one behaviour of Spec.
VariedCalls == 2
\* Callers pass options.retryCount in 0..MaxRetries.
MaxRetries == 1
\* Callers pass options.timeout = CallTimeout (ms).
CallTimeout == 1000
\* setConcurrency is called with values in 1..MaxConcurrency.
MaxConcurrency == 2
\* Largest retryCount of the single call of SpecBackoff.
DeepRetries == 6
\* batchGeocode is called with 1..MaxBatch addresses.
MaxBatch == 2

\* ------------------------------------------------- constructor defaults
retryCount == 3
intervalCap == 1
interval == 1000
concurrency == 1
carryoverConcurrencyCount == FALSE

\* pRetry options passed by geocode and reverseGeocode.
factor == 2
minTimeout == 1000
maxTimeout == 10000

\* RetryHandler.withRetry is called with maxRetries in 0..MaxHandlerRetries
\* and these delay options.
MaxHandlerRetries == 3
BaseDelay == 1000
MaxDelay == 4000
DelayFactor == 2

\* The calls made on the second GeocodingService.
MaxPeerCalls == 2
PeerCalls == 1..MaxPeerCalls

\* The model's clock step: half the default interval.
Step == interval \div 2

Calls == 1..MaxCalls
NoCall == 0

Min(a, b) == IF a <= b THEN a ELSE b
Max(a, b) == IF a >= b THEN a ELSE b

RECURSIVE Pow(_, _)
Pow(b, e) == IF e = 0 THEN 1 ELSE b * Pow(b, e - 1)

\* ------------------------------------------------------------- numbers
\* A JavaScript number as far as the service reads it: NaN or a value
\* (whole degrees).
NaN == [nan |-> TRUE, val |-> 0]
Num(v) == [nan |-> FALSE, val |-> v]
isNaN(x) == x.nan
\* JavaScript's < and >: false whenever an operand is NaN.
Lt(x, v) == ~x.nan /\ x.val < v
Gt(x, v) == ~x.nan /\ x.val > v

\* The lat/lon strings the provider sends in the modelled responses.
CoordStrings == {"45", "-73", "abc", "91", "-181"}

\* Further lat and lon strings: the ends of the valid ranges, values just
\* outside them, a number followed by text, an exponent, and "" for a missing
\* or empty field.
WideLatStrings == {"45", "90", "-90", "91", "-91", "abc", "", "12abc", "1e3"}
WideLonStrings == {"-73", "180", "-180", "181", "-181", "abc", ""}

\* parseFloat on those strings: the longest numeric prefix, NaN without one.
parseFloat(s) ==
    CASE s = "45" -> Num(45)
      [] s = "-73" -> Num(0 - 73)
      [] s = "91" -> Num(91)
      [] s = "-181" -> Num(0 - 181)
      [] s = "90" -> Num(90)
      [] s = "-90" -> Num(0 - 90)
      [] s = "-91" -> Num(0 - 91)
      [] s = "180" -> Num(180)
      [] s = "-180" -> Num(0 - 180)
      [] s = "181" -> Num(181)
      [] s = "12abc" -> Num(12)
      [] s = "1e3" -> Num(1000)
      [] OTHER -> NaN

\* ------------------------------------------------------ provider responses
\* One element of a Nominatim payload (NominatimResponse.lat / .lon).
SampleElems ==
    { [lat |-> "45", lon |-> "-73"],
      [lat |-> "abc", lon |-> "-73"],
      [lat |-> "91", lon |-> "-73"],
      [lat |-> "45", lon |-> "-181"] }

NoElem == [lat |-> "", lon |-> ""]

\* Parsed bodies: an empty collection / absent payload, or one element.
Bodies == {[empty |-> TRUE, elem |-> NoElem]}
            \cup {[empty |-> FALSE, elem |-> e] : e \in SampleElems}

Statuses == {200, 404, 429, 500}

\* What one HTTP call can end with before its timeout: a transport failure
\* (fetch rejects with TypeError) or a response.
\* malformed: the body is not JSON, response.json() throws a SyntaxError.
Responses ==
    {[net |-> TRUE, status |-> 0, malformed |-> FALSE,
      body |-> [empty |-> TRUE, elem |-> NoElem]]}
      \cup {[net |-> FALSE, status |-> s, malformed |-> FALSE,
              body |-> [empty |-> TRUE, elem |-> NoElem]] : s \in Statuses \ {200}}
      \cup {[net |-> FALSE, status |-> 200, malformed |-> FALSE, body |-> b] :
                b \in Bodies}

\* A wider choice of provider answers, for one call: the ends of the status
\* classes, every pair of the further lat/lon strings, malformed bodies.
WideStatuses == {200, 299, 300, 399, 400, 429, 500}

WideBodies ==
    {[empty |-> TRUE, elem |-> NoElem]}
      \cup {[empty |-> FALSE, elem |-> [lat |-> a, lon |-> o]] :
                a \in WideLatStrings, o \in WideLonStrings}

WideResponses ==
    {[net |-> TRUE, status |-> 0, malformed |-> FALSE,
      body |-> [empty |-> TRUE, elem |-> NoElem]]}
      \cup {[net |-> FALSE, status |-> s, malformed |-> m, body |-> b] :
                s \in WideStatuses, m \in BOOLEAN, b \in WideBodies}

\* --------------------------------------------------------------- outcomes
\* The outcome of an attempt, of the retry-wrapped operation, or of a promise.
\* msg is the fixed first part of the error's message; type is the
\* BmltErrorType of a BmltQueryError ("" for a plain Error).
NoOutcome == [tag |-> "none", name |-> "", type |-> "", status |-> 0, msg |-> "",
              lat |-> NaN, lon |-> NaN]
Failure(name, status, msg) ==
    [tag |-> "error", name |-> name, type |-> "", status |-> status, msg |-> msg,
     lat |-> NaN, lon |-> NaN]
Value(lat, lon) ==
    [tag |-> "value", name |-> "", type |-> "", status |-> 0, msg |-> "",
     lat |-> lat, lon |-> lon]

\* new BmltQueryError(type, message): errors.ts sets name to 'BmltQueryError'.
GEOCODING_ERROR == "GeocodingError"
BmltQueryError(type, msg) ==
    [Failure("BmltQueryError", 0, msg) EXCEPT !.type = type]

\* ------------------------------------------------------ utils/errors.ts
\* BmltErrorType.
API_ERROR == "ApiError"
NETWORK_ERROR == "NetworkError"
RATE_LIMIT_ERROR == "RateLimitError"
TIMEOUT_ERROR == "TimeoutError"
AUTHENTICATION_ERROR == "AuthenticationError"
SERVER_ERROR == "ServerError"
CLIENT_ERROR == "ClientError"

\* BmltQueryError.isRetryable, isClientError, isServerError. A status of 0
\* stands for a statusCode that is undefined.
\* (first a variant of isRetryable that also retries a ClientError)
isRetryableWithClient(e) ==
    e.type \in {NETWORK_ERROR, TIMEOUT_ERROR, RATE_LIMIT_ERROR, SERVER_ERROR,
                CLIENT_ERROR}

isRetryable(e) ==
    e.type \in {NETWORK_ERROR, TIMEOUT_ERROR, RATE_LIMIT_ERROR, SERVER_ERROR}
isClientError(e) == e.status # 0 /\ e.status >= 400 /\ e.status < 500
isServerError(e) == e.status # 0 /\ e.status >= 500

\* Variant of createApiError: the >= 400 test made before the tests for 401,
\* 403 and 429.
createApiErrorClientFirst(message, statusCode) ==
    [BmltQueryError(IF statusCode # 0
                    THEN IF statusCode >= 500 THEN SERVER_ERROR
                         ELSE IF statusCode >= 400 THEN CLIENT_ERROR
                         ELSE IF statusCode = 401 \/ statusCode = 403
                         THEN AUTHENTICATION_ERROR
                         ELSE IF statusCode = 429 THEN RATE_LIMIT_ERROR
                         ELSE API_ERROR
                    ELSE API_ERROR,
                    message)
       EXCEPT !.status = statusCode]

\* ErrorFactory.createApiError(message, statusCode): `if (statusCode)` is
\* false for an undefined statusCode and for 0.
createApiError(message, statusCode) ==
    [BmltQueryError(IF statusCode # 0
                    THEN IF statusCode >= 500 THEN SERVER_ERROR
                         ELSE IF statusCode = 401 \/ statusCode = 403
                         THEN AUTHENTICATION_ERROR
                         ELSE IF statusCode = 429 THEN RATE_LIMIT_ERROR
                         ELSE IF statusCode >= 400 THEN CLIENT_ERROR
                         ELSE API_ERROR
                    ELSE API_ERROR,
                    message)
       EXCEPT !.status = statusCode]

createTimeoutError(message) == BmltQueryError(TIMEOUT_ERROR, message)
createNetworkError(message) == BmltQueryError(NETWORK_ERROR, message)

\* A fetch Response as far as the client reads it; NoResponse: the variable
\* `response` is still undefined.
NoResponse == [present |-> FALSE, status |-> 0]
Response(status) == [present |-> TRUE, status |-> status]
Ok(response) == response.status >= 200 /\ response.status <= 299

\* Variant of handleFetchError: the `instanceof Error` case is tried before
\* the response's status.
handleFetchErrorErrorFirst(error, response) ==
    IF error.tag = "error" /\ error.name = "AbortError"
    THEN createTimeoutError("Request timeout")
    ELSE IF error.tag = "error" /\ error.name = "TypeError"
    THEN createNetworkError("Network connection failed")
    ELSE IF error.tag = "error"
    THEN createApiError(error.msg, 0)
    ELSE IF response.present /\ ~Ok(response)
    THEN createApiError("HTTP ", response.status)
    ELSE createApiError("Unknown error occurred", 0)

\* ErrorHandler.handleFetchError(error, response). Every outcome with tag
\* "error" is an instance of Error; name tells its class.
handleFetchError(error, response) ==
    IF error.tag = "error" /\ error.name = "AbortError"
    THEN createTimeoutError("Request timeout")
    ELSE IF error.tag = "error" /\ error.name = "TypeError"
    THEN createNetworkError("Network connection failed")
    ELSE IF response.present /\ ~Ok(response)
    THEN createApiError("HTTP ", response.status)
    ELSE IF error.tag = "error"
    THEN createApiError(error.msg, 0)
    ELSE createApiError("Unknown error occurred", 0)

\* The value `undefined` (or null) a promise can be rejected with.
Undefined == [NoOutcome EXCEPT !.tag = "undefined"]

\* ErrorHandler.wrapError(originalError, context): reading
\* originalError.message of undefined or null throws a TypeError; a
\* BmltQueryError keeps its type and status; anything else becomes an
\* ApiError.
wrapError(originalError, context) ==
    IF originalError = Undefined
    THEN Failure("TypeError", 0, "Cannot read properties of undefined")
    ELSE IF originalError.name = "BmltQueryError"
    THEN [BmltQueryError(originalError.type, context)
            EXCEPT !.status = originalError.status]
    ELSE createApiError(context, 0)

\* validateEndpointFormat(endpoint, format): the error it throws, if any.
GET_SEARCH_RESULTS == "GetSearchResults"
GET_NAWS_DUMP == "GetNAWSDump"
Formats == {"json", "jsonp", "tsml", "csv"}
validateEndpointFormat(endpoint, format) ==
    IF format \in (CASE endpoint = GET_SEARCH_RESULTS -> {"json", "jsonp", "tsml"}
                     [] endpoint = GET_NAWS_DUMP -> {"csv"}
                     [] OTHER -> {"json", "jsonp"})
    THEN NoOutcome
    ELSE Failure("Error", 0, "Invalid format")

\* Variant of validateCoordinates: no range checks.
validateCoordinatesNoRange(latitude, longitude) ==
    IF isNaN(latitude) THEN Failure("Error", 0, "Latitude must be a valid number")
    ELSE IF isNaN(longitude)
    THEN Failure("Error", 0, "Longitude must be a valid number")
    ELSE NoOutcome

\* validateCoordinates(latitude, longitude): the error it throws, if any.
validateCoordinates(latitude, longitude) ==
    IF isNaN(latitude) THEN Failure("Error", 0, "Latitude must be a valid number")
    ELSE IF isNaN(longitude)
    THEN Failure("Error", 0, "Longitude must be a valid number")
    ELSE IF Lt(latitude, 0 - 90) \/ Gt(latitude, 90)
    THEN Failure("Error", 0, "Latitude must be between -90 and 90 degrees")
    ELSE IF Lt(longitude, 0 - 180) \/ Gt(longitude, 180)
    THEN Failure("Error", 0, "Longitude must be between -180 and 180 degrees")
    ELSE NoOutcome

\* What happens to a directory request: fetch is aborted by the client's
\* timeout, fetch fails, or a response arrives with a status and a body that
\* can or cannot be parsed in the format asked for.
DirectoryStatuses == {200, 299, 300, 400, 401, 403, 404, 429, 499, 500, 503}
DirectoryResponses ==
    { [aborted |-> TRUE, net |-> FALSE, status |-> 0, parseable |-> FALSE],
      [aborted |-> FALSE, net |-> TRUE, status |-> 0, parseable |-> FALSE] }
    \cup { [aborted |-> FALSE, net |-> FALSE, status |-> s, parseable |-> p] :
              s \in DirectoryStatuses, p \in BOOLEAN }
NoDirectoryResponse ==
    [aborted |-> FALSE, net |-> FALSE, status |-> 0, parseable |-> FALSE]

\* The value a successful directory request returns.
Meetings == [NoOutcome EXCEPT !.tag = "value"]

\* BmltClient.makeRequest(endpoint, parameters, format) when the request
\* meets resp: the value returned or the error thrown. An error thrown in
\* the try block is caught and passed to handleFetchError once more.
makeRequest(endpoint, format, resp) ==
    IF validateEndpointFormat(endpoint, format).tag = "error"
    THEN handleFetchError(validateEndpointFormat(endpoint, format), NoResponse)
    ELSE IF resp.aborted
    THEN handleFetchError(Failure("AbortError", 0, "This operation was aborted"),
                          NoResponse)
    ELSE IF resp.net
    THEN handleFetchError(Failure("TypeError", 0, "Failed to fetch"), NoResponse)
    ELSE IF ~Ok(Response(resp.status))
    THEN handleFetchError(handleFetchError(Failure("Error", 0, "HTTP "),
                                           Response(resp.status)),
                          Response(resp.status))
    ELSE IF format = "csv" THEN Meetings
    ELSE IF ~resp.parseable
    THEN handleFetchError(IF format = "jsonp"
                          THEN Failure("Error", 0, "Invalid JSONP response format")
                          ELSE Failure("SyntaxError", 0, "Unexpected token"),
                          Response(resp.status))
    ELSE Meetings

\* A radius argument: given or undefined.
NoRadius == [given |-> FALSE, num |-> NaN]
Radius(x) == [given |-> TRUE, num |-> x]

\* `if (radiusMiles !== undefined) validateRadius(radiusMiles)`: the error
\* thrown, if any.
validateRadius(radius) ==
    IF ~radius.given THEN NoOutcome
    ELSE IF isNaN(radius.num) THEN Failure("Error", 0, "Radius must be a valid number")
    ELSE IF ~Gt(radius.num, 0) THEN Failure("Error", 0, "Radius must be greater than 0")
    ELSE NoOutcome

\* Variants of fetchWithTimeout: the status >= 400 test made before the 429
\* test, and every status outside 200..299 treated as an error.
fetchWithTimeoutStatusFirst(aborted, resp) ==
    IF aborted THEN Failure("TimeoutError", 0, "Request timeout during geocoding")
    ELSE IF resp.net
    THEN Failure("NetworkError", 0, "Network error occurred during geocoding")
    ELSE IF resp.status >= 400 /\ ~(resp.status >= 200 /\ resp.status <= 299)
    THEN Failure("GeocodingError", resp.status, "Geocoding service error: ")
    ELSE IF resp.malformed
    THEN Failure("SyntaxError", 0, "Unexpected token")
    ELSE [tag |-> "payload", body |-> resp.body]

fetchWithTimeoutOkOnly(aborted, resp) ==
    IF aborted THEN Failure("TimeoutError", 0, "Request timeout during geocoding")
    ELSE IF resp.net
    THEN Failure("NetworkError", 0, "Network error occurred during geocoding")
    ELSE IF resp.status = 429
    THEN Failure("RateLimitError", 429, "Rate limit exceeded for geocoding service")
    ELSE IF ~(resp.status >= 200 /\ resp.status <= 299)
    THEN Failure("GeocodingError", resp.status, "Geocoding service error: ")
    ELSE IF resp.malformed
    THEN Failure("SyntaxError", 0, "Unexpected token")
    ELSE [tag |-> "payload", body |-> resp.body]

\* Variant of fetchWithTimeout: the HTTP errors carry no statusCode.
fetchWithTimeoutNoStatusCode(aborted, resp) ==
    IF aborted THEN Failure("TimeoutError", 0, "Request timeout during geocoding")
    ELSE IF resp.net
    THEN Failure("NetworkError", 0, "Network error occurred during geocoding")
    ELSE IF resp.status = 429
    THEN Failure("RateLimitError", 0, "Rate limit exceeded for geocoding service")
    ELSE IF resp.status >= 400 /\ ~(resp.status >= 200 /\ resp.status <= 299)
    THEN Failure("GeocodingError", 0, "Geocoding service error: ")
    ELSE IF resp.malformed
    THEN Failure("SyntaxError", 0, "Unexpected token")
    ELSE [tag |-> "payload", body |-> resp.body]

\* fetchWithTimeout: the payload of a response, or the classified failure.
\* aborted: the timeout timer fired before a response arrived.
fetchWithTimeout(aborted, resp) ==
    IF aborted THEN Failure("TimeoutError", 0, "Request timeout during geocoding")
    ELSE IF resp.net
    THEN Failure("NetworkError", 0, "Network error occurred during geocoding")
    ELSE IF resp.status = 429
    THEN Failure("RateLimitError", 429, "Rate limit exceeded for geocoding service")
    ELSE IF resp.status >= 400 /\ ~(resp.status >= 200 /\ resp.status <= 299)
    THEN Failure("GeocodingError", resp.status, "Geocoding service error: ")
    ELSE IF resp.malformed
    THEN Failure("SyntaxError", 0, "Unexpected token")
    ELSE [tag |-> "payload", body |-> resp.body]

\* Variants of geocode's operation: without the range check, and with the
\* empty result reported as a plain Error like reverseGeocode's.
geocodeOperationNoRange(body) ==
    IF body.empty
    THEN BmltQueryError(GEOCODING_ERROR, "No results found for address: ")
    ELSE LET latitude == parseFloat(body.elem.lat)
             longitude == parseFloat(body.elem.lon)
         IN IF isNaN(latitude) \/ isNaN(longitude)
            THEN Failure("GeocodingError", 0,
                         "Invalid coordinates received from geocoding service")
            ELSE Value(latitude, longitude)

geocodeOperationPlainError(body) ==
    IF body.empty
    THEN Failure("GeocodingError", 0, "No results found for address: ")
    ELSE LET latitude == parseFloat(body.elem.lat)
             longitude == parseFloat(body.elem.lon)
         IN IF isNaN(latitude) \/ isNaN(longitude)
            THEN Failure("GeocodingError", 0,
                         "Invalid coordinates received from geocoding service")
            ELSE IF Lt(latitude, 0 - 90) \/ Gt(latitude, 90)
                    \/ Lt(longitude, 0 - 180) \/ Gt(longitude, 180)
            THEN Failure("GeocodingError", 0, "Coordinates out of valid range")
            ELSE Value(latitude, longitude)

\* The operation geocode hands to pRetry, after the HTTP call returned `body`.
geocodeOperation(body) ==
    IF body.empty
    THEN BmltQueryError(GEOCODING_ERROR, "No results found for address: ")
    ELSE LET latitude == parseFloat(body.elem.lat)
             longitude == parseFloat(body.elem.lon)
         IN IF isNaN(latitude) \/ isNaN(longitude)
            THEN Failure("GeocodingError", 0,
                         "Invalid coordinates received from geocoding service")
            ELSE IF Lt(latitude, 0 - 90) \/ Gt(latitude, 90)
                    \/ Lt(longitude, 0 - 180) \/ Gt(longitude, 180)
            THEN Failure("GeocodingError", 0, "Coordinates out of valid range")
            ELSE Value(latitude, longitude)

\* Variant of reverseGeocode's operation: with geocode's coordinate checks.
reverseGeocodeOperationChecked(body) ==
    IF body.empty
    THEN Failure("GeocodingError", 0, "No results found for coordinates: ")
    ELSE LET latitude == parseFloat(body.elem.lat)
             longitude == parseFloat(body.elem.lon)
         IN IF isNaN(latitude) \/ isNaN(longitude)
            THEN Failure("GeocodingError", 0,
                         "Invalid coordinates received from geocoding service")
            ELSE IF Lt(latitude, 0 - 90) \/ Gt(latitude, 90)
                    \/ Lt(longitude, 0 - 180) \/ Gt(longitude, 180)
            THEN Failure("GeocodingError", 0, "Coordinates out of valid range")
            ELSE Value(latitude, longitude)

\* The operation reverseGeocode hands to pRetry.
reverseGeocodeOperation(body) ==
    IF body.empty
    THEN Failure("GeocodingError", 0, "No results found for coordinates: ")
    ELSE Value(parseFloat(body.elem.lat), parseFloat(body.elem.lon))

\* One attempt of a call of the given kind.
Attempt(kind, aborted, resp) ==
    LET r == fetchWithTimeout(aborted, resp)
    IN IF r.tag = "error" THEN r
       ELSE IF kind = "geocode" THEN geocodeOperation(r.body)
       ELSE reverseGeocodeOperation(r.body)

\* ------------------------------------------------------------ retry policy
\* Variants of the retry options: one retry more than asked for, and no
\* maxTimeout (pRetry then never caps the wait).
RetryOptionsOneMore(r) ==
    [retries |-> r + 1, factor |-> factor, minTimeout |-> minTimeout,
     maxTimeout |-> maxTimeout]

RetryOptionsUncapped(r) ==
    [retries |-> r, factor |-> factor, minTimeout |-> minTimeout,
     maxTimeout |-> minTimeout * Pow(factor, r + 1)]

\* The options geocode and reverseGeocode pass to pRetry for a call made with
\* options.retryCount = r.
RetryOptions(r) ==
    [retries |-> r, factor |-> factor, minTimeout |-> minTimeout,
     maxTimeout |-> maxTimeout]

\* Variant of the catch block: a GeocodingError is wrapped in an AbortError,
\* which stops the retry loop.
OperationCatchAborting(error) ==
    [error |-> error, abort |-> error.name = "GeocodingError"]

\* What the operation's catch block hands on to pRetry: the error itself,
\* never wrapped in an AbortError (abort = stop retrying).
OperationCatch(error) == [error |-> error, abort |-> FALSE]

\* The wait before retry k (k = 1 after the first failed attempt).
Backoff(k, opts) == Min(opts.minTimeout * Pow(opts.factor, k - 1), opts.maxTimeout)

\* Variant of the hook: not invoked when no retry is left.
onFailedAttemptBeforeRetry(kind, made, opts) ==
    IF kind = "geocode" /\ made <= opts.retries
    THEN <<opts.retries - (made - 1)>> ELSE <<>>

\* What the onFailedAttempt hook logs when attempt `made` failed: pRetry
\* invokes options.onFailedAttempt for every failed attempt, with
\* error.retriesLeft; geocode passes the hook, reverseGeocode passes none.
onFailedAttempt(kind, made, opts) ==
    IF kind = "geocode" THEN <<opts.retries - (made - 1)>> ELSE <<>>

\* After `made` attempts, the last of which threw `thrown`: retry or give up.
ShouldRetry(made, thrown, opts) == ~thrown.abort /\ made <= opts.retries

\* Variants of the returned promise: failures swallowed into a result without
\* coordinates, and failures never reported.
FacadeSwallow(outcome) ==
    IF outcome.tag = "error" THEN Value(NaN, NaN) ELSE outcome

FacadeSilent(outcome) ==
    IF outcome.tag = "error" THEN NoOutcome ELSE outcome

\* The promise geocode/reverseGeocode returns is the queue's promise for the
\* task: it settles with the task's own outcome.
FacadeSettle(outcome) == outcome

\* ------------------------------------------------------------------ queue
\* Stands for an option PQueue defaults to Infinity.
Infinity == MaxCalls + 1

\* Variants of the constructor's options: no concurrency given (PQueue
\* defaults it to Infinity), and an intervalCap one larger than configured.
QueueOptionsNoConcurrency ==
    [intervalCap |-> intervalCap, interval |-> interval,
     concurrency |-> Infinity,
     carryoverConcurrencyCount |-> carryoverConcurrencyCount]

QueueOptionsWiderCap ==
    [intervalCap |-> intervalCap + 1, interval |-> interval,
     concurrency |-> concurrency,
     carryoverConcurrencyCount |-> carryoverConcurrencyCount]

\* The options the constructor passes to new PQueue.
QueueOptions ==
    [intervalCap |-> intervalCap, interval |-> interval,
     concurrency |-> concurrency,
     carryoverConcurrencyCount |-> carryoverConcurrencyCount]

\* Variant of queue.add: the task goes to the front.
EnqueueFront(q, c) == <<c>> \o q

\* queue.add(task) with no priority: the task goes to the back.
Enqueue(q, c) == Append(q, c)

\* The queue after new PQueue(options). intervalEnd is the time left until
\* the end of the interval that was running when the timer was last set
\* (0: that moment has passed); intervalLeft the time to the timer's next tick.
NewQueue(options) ==
    [queue |-> <<>>, pending |-> 0, intervalCount |-> 0,
     concurrency |-> options.concurrency, intervalCap |-> options.intervalCap,
     interval |-> options.interval,
     carryover |-> options.carryoverConcurrencyCount,
     intervalId |-> FALSE, intervalLeft |-> 0, intervalEnd |-> 0,
     timeoutId |-> FALSE]

IsIntervalIgnored(q) == q.intervalCap >= Infinity \/ q.interval = 0

ResetCount(q) == IF q.carryover THEN q.pending ELSE 0

InitializeIntervalIfNeeded(q) ==
    IF IsIntervalIgnored(q) \/ q.intervalId THEN q
    ELSE [q EXCEPT !.intervalId = TRUE, !.intervalLeft = q.interval,
                   !.intervalEnd = q.interval]

\* With the timer stopped: the interval is over (the count restarts), or it
\* is still running and a timeout is armed for its end.
IsIntervalPaused(q) ==
    IF q.intervalId THEN [q |-> q, paused |-> FALSE, reset |-> FALSE]
    ELSE IF q.intervalEnd = 0
    THEN [q |-> [q EXCEPT !.intervalCount = ResetCount(q)],
          paused |-> FALSE, reset |-> TRUE]
    ELSE [q |-> [q EXCEPT !.timeoutId = TRUE], paused |-> TRUE, reset |-> FALSE]

\* Starts the task at the head of the queue when both caps allow it.
TryToStartAnother(q) ==
    IF Len(q.queue) = 0
    THEN [q |-> [q EXCEPT !.intervalId = FALSE, !.intervalLeft = 0],
          started |-> NoCall, reset |-> FALSE]
    ELSE LET p == IsIntervalPaused(q)
             q1 == p.q
         IN IF (IsIntervalIgnored(q1) \/ q1.intervalCount < q1.intervalCap)
               /\ q1.pending < q1.concurrency
            THEN LET q2 == [q1 EXCEPT !.queue = Tail(q1.queue),
                                      !.pending = @ + 1,
                                      !.intervalCount = @ + 1]
                 IN [q |-> IF p.paused THEN q2 ELSE InitializeIntervalIfNeeded(q2),
                     started |-> Head(q1.queue), reset |-> p.reset]
            ELSE [q |-> q1, started |-> NoCall, reset |-> p.reset]

\* Starts tasks until one cannot start; `started` lists them in order.
RECURSIVE ProcessQueue(_)
ProcessQueue(q) ==
    LET r == TryToStartAnother(q)
    IN IF r.started = NoCall
       THEN [q |-> r.q, started |-> <<>>, reset |-> r.reset]
       ELSE LET rest == ProcessQueue(r.q)
            IN [q |-> rest.q, started |-> <<r.started>> \o rest.started,
                reset |-> r.reset]

One(r) ==
    [q |-> r.q, reset |-> r.reset,
     started |-> IF r.started = NoCall THEN <<>> ELSE <<r.started>>]

\* queue.add: enqueue, then one try.
Add(q, c) == One(TryToStartAnother([q EXCEPT !.queue = Enqueue(q.queue, c)]))

\* A task finished: one slot is free, then one try.
NextTask(q) == One(TryToStartAnother([q EXCEPT !.pending = @ - 1]))

\* The interval timer ticks: the count restarts and the queue is processed;
\* an idle queue stops its timer.
OnInterval(q) ==
    LET q1 == IF q.intervalCount = 0 /\ q.pending = 0 /\ q.intervalId
              THEN [q EXCEPT !.intervalId = FALSE, !.intervalLeft = 0] ELSE q
        r == ProcessQueue([q1 EXCEPT !.intervalCount = ResetCount(q1)])
    IN [q |-> r.q, started |-> r.started, reset |-> TRUE]

\* The timeout armed by IsIntervalPaused fires.
OnResumeInterval(q) ==
    LET r == OnInterval(q)
    IN [q |-> [InitializeIntervalIfNeeded(r.q) EXCEPT !.timeoutId = FALSE],
        started |-> r.started, reset |-> TRUE]

\* queue.concurrency = n.
SetQueueConcurrency(q, n) ==
    ProcessQueue([q EXCEPT !.concurrency = n])

\* queue.clear().
Clear(q) == [q EXCEPT !.queue = <<>>]

\* ------------------------------------------------------------------ state
VARIABLES
    calls,   \* per call: kind, state, options, retry-loop and promise state
    pq,      \* the service's PQueue
    hist,    \* history: ages of recent task starts and HTTP requests, ...
    batch,   \* the batchGeocode call, if one was made
    peer,    \* a second GeocodingService: its PQueue and its calls
    client,  \* the BmltClient that owns the service: its search call
    retry    \* a run of RetryHandler.withRetry

vars == <<calls, pq, hist, batch, peer, client, retry>>

\* The state outside the first GeocodingService.
outside == <<peer, client, retry>>

Range(s) == {s[i] : i \in 1..Len(s)}

\* new GeocodingService(): the second instance, with its own PQueue and no
\* call yet.
NewPeer == [pq |-> NewQueue(QueueOptions), calls |-> [c \in PeerCalls |-> "idle"]]

\* new BmltClient(): no search call made, no directory request issued.
NewClient ==
    [state |-> "idle", kind |-> "none", call |-> NoCall, radius |-> NoRadius,
     argLat |-> NaN, argLon |-> NaN, format |-> "json",
     lat |-> NaN, lon |-> NaN, requests |-> 0, resp |-> NoDirectoryResponse,
     delivery |-> "none", outcome |-> NoOutcome]

\* No run of RetryHandler.withRetry.
IdleRetry ==
    [state |-> "idle", maxRetries |-> 0, hasOnRetry |-> FALSE, attempt |-> 0,
     invocations |-> 0, onRetry |-> <<>>, delays |-> <<>>,
     raised |-> NoOutcome, lastError |-> NoOutcome, thrown |-> NoOutcome]

IdleCall ==
    [kind |-> "none", state |-> "idle", retries |-> 0, timeout |-> 0,
     attempts |-> 0, timer |-> 0, last |-> NoOutcome,
     outcome |-> NoOutcome, promise |-> NoOutcome, delays |-> <<>>,
     waited |-> 0, timers |-> 0, httpStatus |-> 0, hooks |-> <<>>]

Init ==
    /\ calls = [c \in Calls |-> IdleCall]
    /\ pq = NewQueue(QueueOptions)
    /\ hist = [starts |-> <<>>, requests |-> <<>>, windowStarts |-> {},
               capChanged |-> FALSE, discarded |-> {}]
    /\ batch = [state |-> "none", members |-> {}, results |-> <<>>]
    /\ peer = NewPeer
    /\ client = NewClient
    /\ retry = IdleRetry

Submitted == {c \in Calls : calls[c].state # "idle"}
NextId == Cardinality(Submitted) + 1

\* A task the queue starts runs pRetry, whose first attempt issues the HTTP
\* request at once.
\* fetchWithTimeout arms its timeout timer (timers counts the armed ones).
Begin(call) ==
    [call EXCEPT !.state = "attempting", !.attempts = 1, !.timer = 0,
                 !.timers = @ + 1]

Zeros(n) == [i \in 1..n |-> 0]

\* The state after a queue handler with result r ran on calls cs.
Apply(cs, r) ==
    /\ calls' = [c \in Calls |-> IF c \in Range(r.started) THEN Begin(cs[c]) ELSE cs[c]]
    /\ pq' = r.q
    /\ hist' = [hist EXCEPT
                  !.starts = @ \o Zeros(Len(r.started)),
                  !.requests = @ \o Zeros(Len(r.started)),
                  !.windowStarts = (IF r.reset THEN {} ELSE @) \cup Range(r.started)]

\* Variant of a new call: the HTTP request is issued before queue.add.
NewCallEager(kind, r) ==
    [IdleCall EXCEPT !.kind = kind, !.state = "queued", !.retries = r,
                     !.timeout = CallTimeout, !.attempts = 1]

NewCall(kind, r) ==
    [IdleCall EXCEPT !.kind = kind, !.state = "queued", !.retries = r,
                     !.timeout = CallTimeout]

\* geocode(address, {retryCount: r, timeout: CallTimeout})
geocode(r) ==
    /\ NextId \in Calls
    /\ Apply([calls EXCEPT ![NextId] = NewCall("geocode", r)], Add(pq, NextId))
    /\ UNCHANGED <<batch, outside>>

\* reverseGeocode(coordinates, {retryCount: r, timeout: CallTimeout})
reverseGeocode(r) ==
    /\ NextId \in Calls
    /\ Apply([calls EXCEPT ![NextId] = NewCall("reverse", r)], Add(pq, NextId))
    /\ UNCHANGED <<batch, outside>>

\* fetchWithTimeout's finally block: clearTimeout(timeoutId). The variant
\* has no finally block.
NoClearTimeout(n) == n

ClearTimeout(n) == n - 1

\* Variant of the backoff wait: the task gives its slot back while it waits.
RetryWaitReleasing(q) == NextTask(q)

\* pRetry waits for the backoff inside the task queue.add started: the
\* task's promise is pending, so the queue is not told anything.
RetryWait(q) == [q |-> q, started |-> <<>>, reset |-> FALSE]

\* The retry loop of call c after an attempt ended with outcome o; status is
\* the HTTP status of the response the attempt received (0: none).
Finish(c, o, status) ==
    LET opts == RetryOptions(calls[c].retries)
        made == calls[c].attempts
        thrown == OperationCatch(o)
    IN IF o.tag = "value"
       THEN /\ Apply([calls EXCEPT ![c].state = "resolved", ![c].timer = 0,
                                   ![c].timers = ClearTimeout(@),
                                   ![c].httpStatus = status,
                                   ![c].last = o, ![c].outcome = o,
                                   ![c].promise = FacadeSettle(o)],
                     NextTask(pq))
       ELSE IF ShouldRetry(made, thrown, opts)
       THEN /\ Apply([calls EXCEPT ![c].state = "retrying",
                                      ![c].timers = ClearTimeout(@),
                                      ![c].httpStatus = status,
                                      ![c].last = o,
                                      ![c].hooks = @ \o onFailedAttempt(calls[c].kind, made, opts),
                                      ![c].timer = Backoff(made, opts),
                                      ![c].waited = 0,
                                      ![c].delays = Append(@, Backoff(made, opts))],
                     RetryWait(pq))
       ELSE /\ Apply([calls EXCEPT ![c].state = "failed", ![c].timer = 0,
                                   ![c].timers = ClearTimeout(@),
                                   ![c].httpStatus = status,
                                   ![c].last = o,
                                   ![c].hooks = @ \o onFailedAttempt(calls[c].kind, made, opts),
                                   ![c].outcome = thrown.error,
                                   ![c].promise = FacadeSettle(thrown.error)],
                     NextTask(pq))

\* The provider answers (or the transport fails) before the timeout.
HttpResponse(c, resp) ==
    /\ calls[c].state = "attempting"
    /\ calls[c].timer < calls[c].timeout
    /\ Finish(c, Attempt(calls[c].kind, FALSE, resp), resp.status)
    /\ UNCHANGED <<batch, outside>>

\* The timeout timer of fetchWithTimeout fires: the request is aborted.
HttpTimeout(c) ==
    /\ calls[c].state = "attempting"
    /\ calls[c].timer >= calls[c].timeout
    /\ Finish(c, Attempt(calls[c].kind, TRUE,
                         [net |-> FALSE, status |-> 0, malformed |-> FALSE,
                          body |-> [empty |-> TRUE, elem |-> NoElem]]), 0)
    /\ UNCHANGED <<batch, outside>>

\* The backoff wait of call c is over: the next attempt issues its request.
BackoffDone(c) ==
    /\ calls[c].state = "retrying"
    /\ calls[c].timer = 0
    /\ calls' = [calls EXCEPT ![c].state = "attempting", ![c].attempts = @ + 1,
                               ![c].waited = 0, ![c].timers = @ + 1]
    /\ hist' = [hist EXCEPT !.requests = Append(@, 0)]
    /\ UNCHANGED <<pq, batch, outside>>

\* The queue's interval timer ticks.
IntervalTick ==
    /\ pq.intervalId /\ pq.intervalLeft = 0
    /\ Apply(calls, OnInterval([pq EXCEPT !.intervalLeft = pq.interval]))
    /\ UNCHANGED <<batch, outside>>

\* The queue's resume timeout fires at the end of the paused interval.
ResumeInterval ==
    /\ pq.timeoutId /\ pq.intervalEnd = 0
    /\ Apply(calls, OnResumeInterval(pq))
    /\ UNCHANGED <<batch, outside>>

\* Variant of clearQueue: only the task at the head of the queue is dropped.
clearQueueHead ==
    /\ pq' = [pq EXCEPT !.queue = IF Len(@) = 0 THEN @ ELSE Tail(@)]
    /\ hist' = [hist EXCEPT !.discarded =
                   @ \cup {c \in Calls : calls[c].state = "queued"}]
    /\ UNCHANGED <<calls, batch, outside>>

\* clearQueue(): this.queue.clear(). hist.discarded remembers the calls that
\* were waiting when it was called.
clearQueue ==
    /\ pq' = Clear(pq)
    /\ hist' = [hist EXCEPT !.discarded =
                   @ \cup {c \in Calls : calls[c].state = "queued"}]
    /\ UNCHANGED <<calls, batch, outside>>

\* Variant of setConcurrency: the new cap is stored, the queue is not looked
\* at until its next event.
setConcurrencyLazy(n) ==
    /\ pq' = [pq EXCEPT !.concurrency = n]
    /\ hist' = [hist EXCEPT !.capChanged = @ \/ n # pq.concurrency]
    /\ UNCHANGED <<calls, batch, outside>>

\* setConcurrency(n): this.queue.concurrency = n.
setConcurrency(n) ==
    /\ calls' = [c \in Calls |->
                   IF c \in Range(SetQueueConcurrency(pq, n).started)
                   THEN Begin(calls[c]) ELSE calls[c]]
    /\ pq' = SetQueueConcurrency(pq, n).q
    /\ hist' = [hist EXCEPT
                  !.starts = @ \o Zeros(Len(SetQueueConcurrency(pq, n).started)),
                  !.requests = @ \o Zeros(Len(SetQueueConcurrency(pq, n).started)),
                  !.windowStarts = (IF SetQueueConcurrency(pq, n).reset THEN {} ELSE @)
                                      \cup Range(SetQueueConcurrency(pq, n).started),
                  !.capChanged = @ \/ n # pq.concurrency]
    /\ UNCHANGED <<batch, outside>>

Aged(s) == SelectSeq([i \in 1..Len(s) |-> s[i] + Step], LAMBDA a : a < interval)

\* Time passes by one step, unless a timer is due.
Tick ==
    /\ \A c \in Calls :
          /\ calls[c].state = "attempting" => calls[c].timer < calls[c].timeout
          /\ calls[c].state = "retrying" => calls[c].timer > 0
    /\ ~(pq.intervalId /\ pq.intervalLeft = 0)
    /\ ~(pq.timeoutId /\ pq.intervalEnd = 0)
    /\ ~(peer.pq.intervalId /\ peer.pq.intervalLeft = 0)
    /\ ~(peer.pq.timeoutId /\ peer.pq.intervalEnd = 0)
    /\ calls' = [c \in Calls |->
                   IF calls[c].state = "attempting"
                   THEN [calls[c] EXCEPT !.timer = @ + Step]
                   ELSE IF calls[c].state = "retrying"
                   THEN [calls[c] EXCEPT !.timer = Max(0, @ - Step),
                                         !.waited = @ + Step]
                   ELSE calls[c]]
    /\ pq' = [pq EXCEPT !.intervalLeft = IF pq.intervalId THEN @ - Step ELSE @,
                        !.intervalEnd = Max(0, @ - Step)]
    /\ hist' = [hist EXCEPT !.starts = Aged(@), !.requests = Aged(@)]
    /\ peer' = [peer EXCEPT
                  !.pq.intervalLeft = IF peer.pq.intervalId THEN @ - Step ELSE @,
                  !.pq.intervalEnd = Max(0, @ - Step)]
    /\ UNCHANGED <<batch, client, retry>>

\* batchGeocode(addresses, {retryCount: r}) with n addresses: one geocode call
\* per address, submitted in order.
RECURSIVE AddAll(_, _, _)
AddAll(q, first, n) ==
    IF n = 0 THEN [q |-> q, started |-> <<>>, reset |-> FALSE]
    ELSE LET r == Add(q, first)
             rest == AddAll(r.q, first + 1, n - 1)
         IN [q |-> rest.q, started |-> r.started \o rest.started,
             reset |-> r.reset \/ rest.reset]

batchGeocode(n, r) ==
    /\ batch.state = "none"
    /\ NextId + n - 1 \in Calls
    /\ Apply([c \in Calls |-> IF c \in NextId..(NextId + n - 1)
                              THEN NewCall("geocode", r) ELSE calls[c]],
             AddAll(pq, NextId, n))
    /\ batch' = [state |-> "waiting", members |-> NextId..(NextId + n - 1),
                 results |-> <<>>]
    /\ UNCHANGED outside

\* ------------------------------------------------- the second instance
\* Variant of the queue field: one module-level PQueue used by every
\* instance.
ModuleQueue(own, shared) == shared

\* this.queue: the PQueue the instance's own constructor created. Of the
\* two values it selects the one that belongs to the instance.
ThisQueue(own, shared) == own

PeerNextId == Cardinality({c \in PeerCalls : peer.calls[c] # "idle"}) + 1

\* The state after a handler of the second instance's queue ran on its calls
\* cs with result r: the tasks it started are executing.
PeerApply(cs, r) ==
    /\ peer' = [pq |-> ThisQueue(r.q, peer.pq),
                calls |-> [c \in PeerCalls |->
                             IF c \in Range(r.started) THEN "running" ELSE cs[c]]]
    /\ pq' = ThisQueue(pq, r.q)
    /\ UNCHANGED <<calls, hist, batch, client, retry>>

\* geocode(address) on the second instance.
peerGeocode ==
    /\ PeerNextId \in PeerCalls
    /\ PeerApply([peer.calls EXCEPT ![PeerNextId] = "queued"],
                 Add(ThisQueue(peer.pq, pq), PeerNextId))

\* A call of the second instance settles (its retry loop ended).
peerSettle(c) ==
    /\ peer.calls[c] = "running"
    /\ PeerApply([peer.calls EXCEPT ![c] = "done"],
                 NextTask(ThisQueue(peer.pq, pq)))

\* The interval timer of the second instance's queue ticks.
peerIntervalTick ==
    /\ peer.pq.intervalId /\ peer.pq.intervalLeft = 0
    /\ PeerApply(peer.calls,
                 OnInterval([ThisQueue(peer.pq, pq) EXCEPT
                                !.intervalLeft = peer.pq.interval]))

\* The resume timeout of the second instance's queue fires.
peerResumeInterval ==
    /\ peer.pq.timeoutId /\ peer.pq.intervalEnd = 0
    /\ PeerApply(peer.calls, OnResumeInterval(ThisQueue(peer.pq, pq)))

\* clearQueue() on the second instance.
peerClearQueue ==
    PeerApply(peer.calls,
              [q |-> Clear(ThisQueue(peer.pq, pq)), started |-> <<>>,
               reset |-> FALSE])

\* setConcurrency(n) on the second instance.
peerSetConcurrency(n) ==
    PeerApply(peer.calls, SetQueueConcurrency(ThisQueue(peer.pq, pq), n))

\* Variant of getQueueSize: executing tasks counted too.
getQueueSizeAll == Len(pq.queue) + pq.pending

\* getQueueSize(): this.queue.size.
getQueueSize == Len(pq.queue)

\* getPendingCount(): this.queue.pending.
getPendingCount == pq.pending

\* BmltClient.getGeocodingStats() of a client that has a geocoding service.
getGeocodingStats == [queueSize |-> getQueueSize, pendingCount |-> getPendingCount]

\* The promise geocode/reverseGeocode returned for call c is settled.
Settled(c) == calls[c].promise.tag # "none"

\* The per-address promise of batchGeocode, geocode(...).catch(() => null):
\* a rejection becomes null. The variant has no catch.
Null == [NoOutcome EXCEPT !.tag = "null"]

AddressNoCatch(p) == p

AddressCatch(p) == IF p.tag = "error" THEN Null ELSE p

\* results.filter(result => result !== null) over the calls first..last.
RECURSIVE Collect(_, _)
Collect(first, last) ==
    IF first > last THEN <<>>
    ELSE (IF AddressCatch(calls[first].promise) # Null
          THEN <<AddressCatch(calls[first].promise)>> ELSE <<>>)
            \o Collect(first + 1, last)

\* Variant of batchGeocode's wait: it returns as soon as one of the
\* per-address promises has settled.
batchReturnEarly ==
    /\ batch.state = "waiting"
    /\ \E c \in batch.members : Settled(c)
    /\ batch' = [batch EXCEPT !.state = "returned",
                    !.results = Collect(CHOOSE c \in batch.members :
                                           \A d \in batch.members : c <= d,
                                        CHOOSE c \in batch.members :
                                           \A d \in batch.members : c >= d)]
    /\ UNCHANGED <<calls, pq, hist, outside>>

\* Promise.all of the per-address promises settles: it rejects when one of
\* them rejected, else batchGeocode returns the non-null results.
batchReturn ==
    /\ batch.state = "waiting"
    /\ \A c \in batch.members : Settled(c)
    /\ batch' = IF \E c \in batch.members : AddressCatch(calls[c].promise).tag = "error"
                THEN [batch EXCEPT !.state = "rejected"]
                ELSE [batch EXCEPT !.state = "returned",
                        !.results = Collect(CHOOSE c \in batch.members :
                                               \A d \in batch.members : c <= d,
                                            CHOOSE c \in batch.members :
                                               \A d \in batch.members : c >= d)]
    /\ UNCHANGED <<calls, pq, hist, outside>>

\* ------------------------------------------------------------ BmltClient
\* An exception thrown in the body of an async method: the promise the call
\* returned is rejected with it.
AsyncThrow(cl, error) ==
    [cl EXCEPT !.state = "rejected", !.delivery = "rejected", !.outcome = error]

\* searchMeetings(params) up to makeRequest's fetch: the request is issued
\* unless the endpoint/format check throws.
IssueRequest(cl, format, lat, lon) ==
    IF validateEndpointFormat(GET_SEARCH_RESULTS, format).tag = "error"
    THEN AsyncThrow([cl EXCEPT !.format = format],
                    makeRequest(GET_SEARCH_RESULTS, format, NoDirectoryResponse))
    ELSE [cl EXCEPT !.state = "requesting", !.requests = @ + 1,
                    !.format = format, !.lat = lat, !.lon = lon]

\* searchMeetings({format})
searchMeetings(format) ==
    /\ client.state = "idle"
    /\ client' = IssueRequest([client EXCEPT !.kind = "plain"], format, NaN, NaN)
    /\ UNCHANGED <<calls, pq, hist, batch, peer, retry>>

\* searchMeetingsByAddress({address, radiusMiles}) on a client constructed
\* with the given enableGeocoding and geocodingOptions.retryCount = r: up to
\* `await this.geocodingService.geocode(address)`.
searchMeetingsByAddress(enableGeocoding, radius, r) ==
    /\ client.state = "idle"
    /\ NextId \in Calls
    /\ IF ~enableGeocoding
       THEN /\ client' = AsyncThrow([client EXCEPT !.kind = "address",
                                                   !.radius = radius],
                                    Failure("Error", 0, "Geocoding is not enabled"))
            /\ UNCHANGED <<calls, pq, hist>>
       ELSE /\ client' = [client EXCEPT !.kind = "address", !.state = "geocoding",
                                        !.call = NextId, !.radius = radius]
            /\ Apply([calls EXCEPT ![NextId] = NewCall("geocode", r)],
                     Add(pq, NextId))
    /\ UNCHANGED <<batch, peer, retry>>

\* Variant of the await: a failed geocoding is taken for a result without
\* coordinates.
AwaitGeocodeIgnoringFailure(promise) ==
    IF promise.tag = "error" THEN Value(NaN, NaN) ELSE promise

\* `await geocode(address)`: the result, or the rejection thrown on.
AwaitGeocode(promise) == promise

\* searchMeetingsByAddress after the await: the geocoding promise settled.
searchMeetingsByAddressResume ==
    /\ client.state = "geocoding"
    /\ Settled(client.call)
    /\ client' =
          LET geocodeResult == AwaitGeocode(calls[client.call].promise)
          IN IF geocodeResult.tag = "error" THEN AsyncThrow(client, geocodeResult)
             ELSE IF validateRadius(client.radius).tag = "error"
             THEN AsyncThrow(client, validateRadius(client.radius))
             ELSE IssueRequest(client, client.format, geocodeResult.lat,
                               geocodeResult.lon)
    /\ UNCHANGED <<calls, pq, hist, batch, peer, retry>>

\* searchMeetingsByCoordinates({latitude, longitude}, radiusMiles)
searchMeetingsByCoordinates(latitude, longitude, radius) ==
    /\ client.state = "idle"
    /\ client' =
          LET cl == [client EXCEPT !.kind = "coordinates", !.radius = radius,
                                   !.argLat = latitude, !.argLon = longitude]
          IN IF validateCoordinates(latitude, longitude).tag = "error"
             THEN AsyncThrow(cl, validateCoordinates(latitude, longitude))
             ELSE IF validateRadius(radius).tag = "error"
             THEN AsyncThrow(cl, validateRadius(radius))
             ELSE IssueRequest(cl, cl.format, latitude, longitude)
    /\ UNCHANGED <<calls, pq, hist, batch, peer, retry>>

\* The directory request of the search call meets resp: makeRequest returns
\* or throws.
directoryResponse(resp) ==
    /\ client.state = "requesting"
    /\ client' =
          LET o == makeRequest(GET_SEARCH_RESULTS, client.format, resp)
          IN [client EXCEPT !.state = IF o.tag = "error" THEN "rejected" ELSE "resolved",
                            !.delivery = IF o.tag = "error" THEN "rejected" ELSE "resolved",
                            !.outcome = o, !.resp = resp]
    /\ UNCHANGED <<calls, pq, hist, batch, peer, retry>>

\* ---------------------------------------------------------- RetryHandler
\* RetryHandler.withRetry(operation, {maxRetries, baseDelay, maxDelay,
\* factor, onRetry}): the loop starts and invokes the operation.
withRetry(maxRetries, hasOnRetry) ==
    /\ retry.state = "idle"
    /\ retry' = [IdleRetry EXCEPT !.state = "running", !.maxRetries = maxRetries,
                                  !.hasOnRetry = hasOnRetry, !.invocations = 1]
    /\ UNCHANGED <<calls, pq, hist, batch, peer, client>>

\* The awaited operation settles with o: a value is returned; a failure
\* goes through the catch block, which throws or calls onRetry and sleeps.
operationSettles(o) ==
    /\ retry.state = "running"
    /\ retry' =
          IF o.tag = "value" THEN [retry EXCEPT !.state = "returned"]
          ELSE LET bmltError == IF o.tag = "error" /\ o.name = "BmltQueryError"
                                THEN o ELSE wrapError(o, "Operation failed")
               IN IF bmltError.name # "BmltQueryError"
                  THEN [retry EXCEPT !.state = "thrown", !.raised = o,
                                     !.thrown = bmltError]
                  ELSE IF retry.attempt = retry.maxRetries \/ ~isRetryable(bmltError)
                  THEN [retry EXCEPT !.state = "thrown", !.raised = o,
                                     !.lastError = bmltError,
                                     !.thrown = bmltError]
                  ELSE [retry EXCEPT
                          !.state = "sleeping", !.raised = o,
                          !.lastError = bmltError,
                          !.delays = Append(@, Min(BaseDelay * Pow(DelayFactor, retry.attempt),
                                                   MaxDelay)),
                          !.onRetry = IF retry.hasOnRetry
                                      THEN Append(@, retry.attempt + 1) ELSE @]
    /\ UNCHANGED <<calls, pq, hist, batch, peer, client>>

\* The sleep before the retry is over: the loop invokes the operation again.
sleepDone ==
    /\ retry.state = "sleeping"
    /\ retry' = [retry EXCEPT !.state = "running", !.attempt = @ + 1,
                              !.invocations = @ + 1]
    /\ UNCHANGED <<calls, pq, hist, batch, peer, client>>

\* The service with every response of the provider, for VariedCalls calls and
\* an untouched queue (clearQueue and setConcurrency are in NextQueue).
Next ==
    \/ \E r \in 0..MaxRetries : NextId <= VariedCalls /\ geocode(r)
    \/ \E r \in 0..MaxRetries : NextId <= VariedCalls /\ reverseGeocode(r)
    \/ \E n \in 1..MaxBatch, r \in 0..MaxRetries :
          NextId + n - 1 <= VariedCalls /\ batchGeocode(n, r)
    \/ batchReturn
    \/ \E c \in Calls, resp \in Responses : HttpResponse(c, resp)
    \/ \E c \in Calls : HttpTimeout(c)
    \/ \E c \in Calls : BackoffDone(c)
    \/ IntervalTick
    \/ ResumeInterval
    \/ Tick

Spec == Init /\ [][Next]_vars

\* The responses of SpecQueue: a valid result or a server error.
QueueResponses ==
    {resp \in Responses :
        \/ resp.status = 500
        \/ resp.status = 200 /\ resp.body = [empty |-> FALSE,
                                             elem |-> [lat |-> "45", lon |-> "-73"]]}

\* The service under MaxCalls geocode calls, with the queue's own operations.
NextQueue ==
    \/ \E r \in 0..MaxRetries : geocode(r)
    \/ \E c \in Calls, resp \in QueueResponses : HttpResponse(c, resp)
    \/ \E c \in Calls : HttpTimeout(c)
    \/ \E c \in Calls : BackoffDone(c)
    \/ IntervalTick
    \/ ResumeInterval
    \/ clearQueue
    \/ \E n \in 1..MaxConcurrency : setConcurrency(n)
    \/ Tick

SpecQueue == Init /\ [][NextQueue]_vars

\* One call with a retryCount of up to DeepRetries.
NextBackoff ==
    \/ \E r \in 0..DeepRetries : NextId <= 1 /\ geocode(r)
    \/ \E r \in 0..DeepRetries : NextId <= 1 /\ reverseGeocode(r)
    \/ \E c \in Calls, resp \in QueueResponses : HttpResponse(c, resp)
    \/ \E c \in Calls : HttpTimeout(c)
    \/ \E c \in Calls : BackoffDone(c)
    \/ IntervalTick
    \/ Tick

SpecBackoff == Init /\ [][NextBackoff]_vars

\* One call, answered with any of the wider provider answers.
NextProvider ==
    \/ \E r \in 0..MaxRetries : NextId <= 1 /\ geocode(r)
    \/ \E r \in 0..MaxRetries : NextId <= 1 /\ reverseGeocode(r)
    \/ \E c \in Calls, resp \in WideResponses : HttpResponse(c, resp)
    \/ \E c \in Calls : HttpTimeout(c)
    \/ \E c \in Calls : BackoffDone(c)
    \/ IntervalTick
    \/ Tick

SpecProvider == Init /\ [][NextProvider]_vars

\* The service when clearQueue is never called, with the scheduling the
\* event loop gives: time passes, due timers fire, an HTTP call that got no
\* response is aborted at its timeout.
NextLive ==
    \/ \E r \in 0..MaxRetries : NextId <= VariedCalls /\ geocode(r)
    \/ \E r \in 0..MaxRetries : NextId <= VariedCalls /\ reverseGeocode(r)
    \/ \E c \in Calls, resp \in QueueResponses : HttpResponse(c, resp)
    \/ \E c \in Calls : HttpTimeout(c)
    \/ \E c \in Calls : BackoffDone(c)
    \/ IntervalTick
    \/ ResumeInterval
    \/ Tick

\* The handlers the event loop runs by itself.
EventLoop ==
    \/ Tick
    \/ IntervalTick
    \/ ResumeInterval
    \/ \E c \in Calls : HttpTimeout(c)
    \/ \E c \in Calls : BackoffDone(c)

SpecLive ==
    /\ Init /\ [][NextLive]_vars
    /\ WF_vars(EventLoop)

\* A batchGeocode call and single geocode calls (VariedCalls calls in all)
\* with clearQueue, under the event loop's scheduling: the continuation of
\* Promise.all runs once every promise has settled.
NextBatch ==
    \/ \E n \in 1..MaxBatch, r \in 0..MaxRetries :
          NextId + n - 1 <= VariedCalls /\ batchGeocode(n, r)
    \/ \E r \in 0..MaxRetries : NextId <= VariedCalls /\ geocode(r)
    \/ batchReturn
    \/ \E c \in Calls, resp \in QueueResponses : HttpResponse(c, resp)
    \/ \E c \in Calls : HttpTimeout(c)
    \/ \E c \in Calls : BackoffDone(c)
    \/ IntervalTick
    \/ ResumeInterval
    \/ clearQueue
    \/ Tick

SpecBatch ==
    /\ Init /\ [][NextBatch]_vars
    /\ WF_vars(EventLoop \/ batchReturn)

\* Two GeocodingService instances side by side: the first under VariedCalls
\* geocode calls without retries and clearQueue, the second under
\* MaxPeerCalls calls, clearQueue and setConcurrency.
NextPeers ==
    \/ NextId <= VariedCalls /\ geocode(0)
    \/ \E c \in Calls, resp \in QueueResponses : HttpResponse(c, resp)
    \/ \E c \in Calls : HttpTimeout(c)
    \/ IntervalTick
    \/ ResumeInterval
    \/ clearQueue
    \/ peerGeocode
    \/ \E c \in PeerCalls : peerSettle(c)
    \/ peerIntervalTick
    \/ peerResumeInterval
    \/ peerClearQueue
    \/ \E n \in 1..MaxConcurrency : peerSetConcurrency(n)
    \/ Tick

SpecPeers == Init /\ [][NextPeers]_vars

\* The arguments of the modelled search calls.
Radii == {NoRadius, Radius(Num(5)), Radius(Num(0))}
Latitudes == {Num(45), Num(90), Num(0 - 90), Num(91), Num(0 - 91), Num(999), NaN}
Longitudes == {Num(0 - 73), Num(180), Num(181), Num(999), NaN}

\* A BmltClient making one search call, with the geocoding service behind
\* it.
NextClient ==
    \/ \E format \in Formats : searchMeetings(format)
    \/ \E e \in BOOLEAN, radius \in Radii, r \in 0..MaxRetries :
          searchMeetingsByAddress(e, radius, r)
    \/ searchMeetingsByAddressResume
    \/ \E latitude \in Latitudes, longitude \in Longitudes, radius \in Radii :
          searchMeetingsByCoordinates(latitude, longitude, radius)
    \/ \E resp \in DirectoryResponses : directoryResponse(resp)
    \/ \E c \in Calls, resp \in Responses : HttpResponse(c, resp)
    \/ \E c \in Calls : HttpTimeout(c)
    \/ \E c \in Calls : BackoffDone(c)
    \/ IntervalTick
    \/ Tick

SpecClient == Init /\ [][NextClient]_vars

\* What the operation handed to withRetry can settle with: a value, a
\* BmltQueryError of any of these types (with a status where one belongs to
\* it), a plain Error, or undefined.
OperationOutcomes ==
    {Meetings, Failure("Error", 0, "failed"), Undefined}
    \cup {BmltQueryError(t, "failed") :
             t \in {NETWORK_ERROR, TIMEOUT_ERROR, API_ERROR, GEOCODING_ERROR}}
    \cup {createApiError("failed", s) : s \in {404, 429, 500}}

\* One run of RetryHandler.withRetry.
NextRetry ==
    \/ \E m \in 0..MaxHandlerRetries, h \in BOOLEAN : withRetry(m, h)
    \/ \E o \in OperationOutcomes : operationSettles(o)
    \/ sleepDone

SpecRetry == Init /\ [][NextRetry]_vars

\* ================================================================ claims
Started(c) == calls[c].state \notin {"idle", "queued"}
InFlight == {c \in Calls : calls[c].state \in {"attempting", "retrying"}}
\* Dropped by clearQueue: submitted, not started, no longer in the queue.
Discarded(c) == calls[c].state = "queued" /\ c \notin Range(pq.queue)
StartedInStep == {c \in Calls : ~Started(c) /\ calls'[c].state = "attempting"}

\* C1: while the concurrency cap is the one the service was constructed with,
\* the number of tasks started and not yet completed is at most `concurrency`;
\* and after any step in which the queue starts a task the in-flight count is
\* within the cap then in force.
C1_ConcurrencyCap ==
    /\ [](~hist.capChanged => Cardinality(InFlight) <= concurrency)
    /\ [][StartedInStep # {} =>
            Cardinality({c \in Calls : calls'[c].state \in {"attempting", "retrying"}})
               <= pq'.concurrency]_vars

\* A task waits although the interval would allow it: the cap is reached.
C1_Witness ==
    /\ ~hist.capChanged
    /\ Cardinality(InFlight) = concurrency
    /\ Len(pq.queue) > 0
    /\ pq.intervalCount < pq.intervalCap

C3_RequestRate ==
    Len(hist.starts) <= intervalCap => Len(hist.requests) <= intervalCap

\* C4 as stated: of two calls, the later submitted never has started while
\* the earlier has not.
C4_Fifo ==
    \A a, b \in Calls : a < b /\ Started(b) => Started(a)

\* C4 amended: ... unless clearQueue discarded the earlier call.
C4_FifoUnlessCleared ==
    \A a, b \in Calls : a < b /\ Started(b) /\ ~Discarded(a) => Started(a)

\* Two calls in flight together, and a third still waiting behind them.
C4_Witness ==
    \E a, b, c \in Calls :
        /\ a < b /\ b < c
        /\ a \in InFlight /\ b \in InFlight
        /\ calls[c].state = "queued" /\ ~Discarded(c)

\* C5: the promise geocode/reverseGeocode returned is unsettled until the
\* retry-wrapped operation ends, and then holds exactly the value the
\* operation produced or exactly the error it raised.
C5_OutcomeUnchanged ==
    \A c \in Calls :
        /\ calls[c].outcome.tag = "none" => calls[c].promise.tag = "none"
        /\ calls[c].outcome.tag # "none" => calls[c].promise = calls[c].outcome

\* The second call waited for the queue; one call resolved, one rejected.
C5_Witness ==
    /\ calls[1].promise.tag = "value"
    /\ calls[2].promise.tag = "error"
    /\ calls[2].promise.name = "RateLimitError"

AllowedTransitions ==
    { <<"idle", "queued">>, <<"idle", "attempting">>, <<"queued", "attempting">>,
      <<"attempting", "retrying">>, <<"retrying", "attempting">>,
      <<"attempting", "resolved">>, <<"attempting", "failed">> }

\* C7: a call moves only along queued -> attempting -> (retrying ->
\* attempting)* -> resolved | failed; it has made no attempt while it waits
\* for the queue; it enters retrying only after a failed attempt with retries
\* remaining; resolved and failed are final.
C7_Transitions ==
    /\ [](\A c \in Calls : calls[c].state \in {"idle", "queued"} => calls[c].attempts = 0)
    /\ [][\A c \in Calls :
            /\ calls'[c].state # calls[c].state =>
                  <<calls[c].state, calls'[c].state>> \in AllowedTransitions
            /\ calls'[c].attempts # calls[c].attempts =>
                  calls'[c].state = "attempting" /\ calls[c].state # "attempting"
            /\ calls[c].state # "retrying" /\ calls'[c].state = "retrying" =>
                  calls'[c].last.tag = "error" /\ calls[c].attempts <= calls[c].retries
            /\ calls[c].state \in {"resolved", "failed"} => calls'[c] = calls[c]
         ]_vars

\* A call that waited in the queue, failed once, retried and resolved.
C7_Witness ==
    \E c \in Calls : c > 1 /\ calls[c].state = "resolved" /\ calls[c].attempts = 2

\* C8: a call made with retryCount = R never makes more than R+1 attempts; one
\* whose attempts all fail ends failed after exactly R+1 attempts, rejecting
\* with the error of the last attempt; one that ends resolved did so on its
\* last attempt; and a settled call makes no further attempt.
C8_AttemptCount ==
    /\ [](\A c \in Calls :
            /\ calls[c].attempts <= calls[c].retries + 1
            /\ calls[c].state = "failed" =>
                  /\ calls[c].attempts = calls[c].retries + 1
                  /\ calls[c].last.tag = "error"
                  /\ calls[c].promise = calls[c].last
            /\ calls[c].state = "resolved" =>
                  /\ calls[c].attempts >= 1
                  /\ calls[c].last.tag = "value"
                  /\ calls[c].promise = calls[c].last
            /\ calls[c].state = "attempting" =>
                  Len(calls[c].delays) = calls[c].attempts - 1)
    /\ [][\A c \in Calls :
            calls[c].state \in {"resolved", "failed"} =>
                calls'[c].attempts = calls[c].attempts]_vars

\* One call failed both of its attempts, another resolved on its second.
C8_Witness ==
    /\ calls[1].state = "failed" /\ calls[1].retries = 1 /\ calls[1].attempts = 2
    /\ calls[2].state = "resolved" /\ calls[2].retries = 1 /\ calls[2].attempts = 2

AttemptFailedInStep(c) ==
    /\ calls[c].state = "attempting"
    /\ calls'[c].state # "attempting"
    /\ calls'[c].last.tag = "error"

\* C10: a failed attempt is retried whenever retries remain, whatever the
\* failure is, and consumes exactly one retry; it ends the call only when
\* none remain.
C10_RetryWhateverTheError ==
    [][\A c \in Calls :
          AttemptFailedInStep(c) =>
              IF calls[c].attempts <= calls[c].retries
              THEN /\ calls'[c].state = "retrying"
                   /\ Len(calls'[c].delays) = Len(calls[c].delays) + 1
                   /\ calls'[c].attempts = calls[c].attempts
              ELSE calls'[c].state = "failed"
      ]_vars

\* A timed-out attempt and an attempt with out-of-range coordinates, each
\* followed by a retry.
C10_Witness ==
    /\ calls[1].state = "resolved" /\ calls[1].attempts = 2
    /\ calls[1].kind = "geocode"
    /\ calls[2].state = "retrying" /\ calls[2].last.name = "TimeoutError"

\* C6: when clearQueue is never called and every HTTP attempt ends, each
\* submitted call eventually settles, and a settled promise never changes.
C6_SettlesOnce ==
    /\ \A c \in Calls : (calls[c].state # "idle") ~> Settled(c)
    /\ [][\A c \in Calls : Settled(c) => calls'[c].promise = calls[c].promise]_vars

\* Both calls settled, the second after waiting for the first and retrying.
C6_Witness ==
    /\ Settled(1) /\ Settled(2)
    /\ calls[2].attempts = 2

\* The delays C9 lists: 1000, 2000, 4000, 8000, then 10000.
ClaimedDelay(k) ==
    CASE k = 1 -> 1000 [] k = 2 -> 2000 [] k = 3 -> 4000 [] k = 4 -> 8000
      [] OTHER -> 10000

\* C9: the wait before retry k is min(1000 * 2^(k-1), 10000) ms, that is
\* 1000, 2000, 4000, 8000, 10000, ...; the waits never decrease and never
\* exceed 10000 ms; and the next attempt begins when exactly that time passed.
C9_BackoffDelays ==
    /\ [](\A c \in Calls : \A k \in 1..Len(calls[c].delays) :
            /\ calls[c].delays[k] = ClaimedDelay(k)
            /\ calls[c].delays[k] = Min(1000 * Pow(2, k - 1), 10000)
            /\ calls[c].delays[k] <= 10000
            /\ k > 1 => calls[c].delays[k - 1] <= calls[c].delays[k])
    /\ [][\A c \in Calls :
            calls[c].state = "retrying" /\ calls'[c].state = "attempting" =>
                calls[c].waited = ClaimedDelay(calls[c].attempts)]_vars

\* A call that is making its attempt after the sixth retry wait.
C9_Witness ==
    \E c \in Calls :
        /\ Len(calls[c].delays) = 6 /\ calls[c].state = "attempting"
        /\ calls[c].delays[5] = 10000 /\ calls[c].delays[6] = 10000

\* A latitude in [-90, 90] and a longitude in [-180, 180], neither NaN.
ValidPair(lat, lon) ==
    /\ ~lat.nan /\ lat.val >= 0 - 90 /\ lat.val <= 90
    /\ ~lon.nan /\ lon.val >= 0 - 180 /\ lon.val <= 180

\* C11: every result geocode resolves with has a latitude in [-90, 90] and a
\* longitude in [-180, 180], neither NaN; a provider element whose lat or lon
\* parses to NaN or lies outside the ranges makes the attempt fail with a
\* GeocodingError, and a valid element is returned as parsed.
C11_GeocodeResultsValid ==
    /\ \A c \in Calls :
          calls[c].kind = "geocode" =>
             /\ calls[c].last.tag = "value" =>
                   ValidPair(calls[c].last.lat, calls[c].last.lon)
             /\ calls[c].promise.tag = "value" =>
                   ValidPair(calls[c].promise.lat, calls[c].promise.lon)
    /\ \A b \in WideBodies :
          ~b.empty =>
             IF ValidPair(parseFloat(b.elem.lat), parseFloat(b.elem.lon))
             THEN geocodeOperation(b)
                     = Value(parseFloat(b.elem.lat), parseFloat(b.elem.lon))
             ELSE /\ geocodeOperation(b).tag = "error"
                  /\ geocodeOperation(b).name = "GeocodingError"

\* geocode resolved on its second attempt with coordinates at the ends of
\* both ranges.
C11_Witness ==
    /\ calls[1].kind = "geocode" /\ calls[1].state = "resolved"
    /\ calls[1].attempts = 2
    /\ calls[1].promise.lat = Num(90) /\ calls[1].promise.lon = Num(0 - 180)

C13_EmptyResultRejects ==
    /\ geocodeOperation([empty |-> TRUE, elem |-> NoElem])
          = BmltQueryError(GEOCODING_ERROR, "No results found for address: ")
    /\ \A c \in Calls :
          calls[c].kind = "geocode" =>
             /\ calls[c].last.msg = "No results found for address: " =>
                   /\ calls[c].last.tag = "error"
                   /\ calls[c].last.name = "BmltQueryError"
                   /\ calls[c].last.type = "GeocodingError"
                   /\ calls[c].state \in {"retrying", "attempting", "failed"}
                   /\ calls[c].state = "failed" => calls[c].promise = calls[c].last
             /\ calls[c].promise.tag = "value" =>
                   ~isNaN(calls[c].promise.lat) /\ ~isNaN(calls[c].promise.lon)

\* A geocode call rejected after two attempts, the last answered with an
\* empty collection.
C13_Witness ==
    \E c \in Calls :
        /\ calls[c].kind = "geocode" /\ calls[c].state = "failed"
        /\ calls[c].attempts = 2
        /\ calls[c].promise.msg = "No results found for address: "

\* The members of the batch in input order.
BatchOrder ==
    [i \in 1..Cardinality(batch.members) |->
        CHOOSE c \in batch.members : Cardinality({d \in batch.members : d < c}) = i - 1]

ResolvedMembers == SelectSeq(BatchOrder, LAMBDA c : calls[c].state = "resolved")

\* C14: batchGeocode never rejects; what it returns is exactly the results of
\* the addresses whose call resolved, in input order, so its length is the
\* number of resolved addresses and failed addresses are left out.
C14_BatchOmitsFailures ==
    /\ batch.state # "rejected"
    /\ batch.state = "returned" =>
          /\ Len(batch.results) = Cardinality({c \in batch.members :
                                                  calls[c].state = "resolved"})
          /\ batch.results = [i \in 1..Len(ResolvedMembers) |->
                                 calls[ResolvedMembers[i]].promise]

\* A batch of two addresses returned one result: the first address failed.
C14_Witness ==
    /\ batch.state = "returned" /\ batch.members = {1, 2}
    /\ calls[1].state = "failed" /\ calls[2].state = "resolved"
    /\ Len(batch.results) = 1

\* The attempt of call c ends in this step.
AttemptEndsInStep(c) ==
    /\ calls[c].state = "attempting"
    /\ calls'[c].state # "attempting"

\* C15: one HTTP call ends in exactly one way, decided in this order: the
\* timeout elapsed -> TimeoutError; transport failure -> NetworkError; status
\* 429 -> RateLimitError with statusCode 429; another status >= 400 ->
\* GeocodingError with that status; an error raised while the body is parsed
\* propagates unchanged; otherwise the payload is returned.
C15_Classification ==
    /\ [](\A resp \in WideResponses :
            /\ fetchWithTimeout(TRUE, resp).tag = "error"
            /\ fetchWithTimeout(TRUE, resp).name = "TimeoutError"
            /\ resp.net => fetchWithTimeout(FALSE, resp).name = "NetworkError"
            /\ ~resp.net /\ resp.status = 429 =>
                  /\ fetchWithTimeout(FALSE, resp).name = "RateLimitError"
                  /\ fetchWithTimeout(FALSE, resp).status = 429
            /\ ~resp.net /\ resp.status >= 400 /\ resp.status # 429 =>
                  /\ fetchWithTimeout(FALSE, resp).name = "GeocodingError"
                  /\ fetchWithTimeout(FALSE, resp).status = resp.status
            /\ ~resp.net /\ resp.status < 400 /\ resp.malformed =>
                  fetchWithTimeout(FALSE, resp).name = "SyntaxError")
    /\ [][\A c \in Calls :
            AttemptEndsInStep(c) =>
               /\ calls[c].timer >= calls[c].timeout =>
                     calls'[c].last.name = "TimeoutError"
               /\ calls'[c].httpStatus = 429 =>
                     /\ calls'[c].last.name = "RateLimitError"
                     /\ calls'[c].last.status = 429
               /\ calls'[c].httpStatus >= 400 /\ calls'[c].httpStatus # 429 =>
                     /\ calls'[c].last.name = "GeocodingError"
                     /\ calls'[c].last.status = calls'[c].httpStatus
               /\ calls'[c].last.name \in {"RateLimitError", "NetworkError",
                                            "TimeoutError", "SyntaxError"} =>
                     calls'[c].last.tag = "error"
         ]_vars

\* A call that failed once, retried, and whose second attempt timed out.
C15_Witness ==
    \E c \in Calls :
        /\ calls[c].state = "failed" /\ calls[c].attempts = 2
        /\ calls[c].last.name = "TimeoutError"
        /\ Len(calls[c].delays) = 1

\* C16 as stated: an attempt produces a result only from a response whose
\* status is in 200..299.
C16_PayloadOnly2xx ==
    \A c \in Calls :
        calls[c].last.tag = "value" =>
            calls[c].httpStatus >= 200 /\ calls[c].httpStatus <= 299

\* C16 amended: the body is parsed and returned for every status below 400
\* (200..299, and a status outside that range below 400); only 429 and the
\* statuses from 400 on return no payload.
C16_PayloadBelow400 ==
    /\ \A c \in Calls :
          calls[c].last.tag = "value" =>
              calls[c].httpStatus >= 200 /\ calls[c].httpStatus < 400
    /\ \A resp \in WideResponses :
          ~resp.net /\ ~resp.malformed =>
              (fetchWithTimeout(FALSE, resp).tag = "payload" <=> resp.status < 400)

\* A call resolved from a response with status 300.
C16_Witness ==
    \E c \in Calls : calls[c].state = "resolved" /\ calls[c].httpStatus = 300

\* C17: a call has an armed timeout timer exactly while one of its HTTP
\* attempts is running, and then exactly one: the timer is released when the
\* attempt ends, however it ends, and timers do not add up over attempts.
C17_TimerReleased ==
    \A c \in Calls :
        calls[c].timers = IF calls[c].state = "attempting" THEN 1 ELSE 0

\* A call that ended after a timed-out attempt and a second attempt.
C17_Witness ==
    \E c \in Calls :
        /\ calls[c].state \in {"resolved", "failed"} /\ calls[c].attempts = 2
        /\ calls[c].timers = 0 /\ calls[c].waited = 0
        /\ Len(calls[c].delays) = 1

\* The queue lost tasks in this step without starting any.
QueueClearedInStep == Len(pq'.queue) < Len(pq.queue) /\ StartedInStep = {}

\* C18: clearQueue empties the queue and changes nothing else: the calls that
\* are executing keep their state and the in-flight count is unchanged; a
\* discarded call has made no attempt, its promise is unsettled, and it stays
\* that way for ever.
C18_ClearDiscardsWaiting ==
    /\ [](\A c \in Calls :
            Discarded(c) => ~Settled(c) /\ calls[c].attempts = 0)
    /\ [][QueueClearedInStep =>
             /\ Len(pq'.queue) = 0
             /\ calls' = calls
             /\ pq'.pending = pq.pending]_vars
    /\ [][\A c \in Calls :
             Discarded(c) => Discarded(c)' /\ calls'[c] = calls[c]]_vars

\* Call 2 was discarded while call 1 was executing; call 1 resolved, and so
\* did call 3, submitted after the clear.
C18_Witness ==
    /\ Discarded(2)
    /\ calls[1].state = "resolved" /\ calls[3].state = "resolved"

\* C19: a step that changes the concurrency cap leaves every executing and
\* every settled call as it is; it starts no task when the in-flight count
\* already reaches the new cap; after it no waiting task is left that both
\* caps would allow to start; and whenever a task starts, the in-flight count
\* is within the cap then in force.
C19_SetConcurrencyMidFlight ==
    /\ [][pq'.concurrency # pq.concurrency =>
             /\ \A c \in Calls : Started(c) => calls'[c] = calls[c]
             /\ Cardinality(InFlight) >= pq'.concurrency => StartedInStep = {}
             /\ \/ Len(pq'.queue) = 0
                \/ pq'.pending >= pq'.concurrency
                \/ pq'.intervalCount >= pq'.intervalCap]_vars
    /\ [][StartedInStep # {} => Cardinality(InFlight)' <= pq'.concurrency]_vars

\* The cap was lowered to 1 while two tasks were executing; both still are,
\* and a third waits.
C19_Witness ==
    /\ hist.capChanged /\ pq.concurrency = 1
    /\ Cardinality(InFlight) = 2
    /\ Len(pq.queue) = 1

\* C20: getQueueSize() is the number of submitted calls that wait for the
\* queue (not started, not discarded by clearQueue), getPendingCount() the
\* number of executing ones; waiting, executing, settled and discarded calls
\* are disjoint and together are the calls submitted.
C20_QueueCounts ==
    LET waiting == {c \in Calls : calls[c].state = "queued"} \ hist.discarded
        settled == {c \in Calls : calls[c].state \in {"resolved", "failed"}}
    IN /\ getGeocodingStats.queueSize = Cardinality(waiting)
       /\ getGeocodingStats.pendingCount = Cardinality(InFlight)
       /\ hist.discarded \cap (InFlight \cup settled) = {}
       /\ hist.discarded \subseteq Submitted
       /\ getQueueSize + getPendingCount + Cardinality(settled)
             + Cardinality(hist.discarded) = Cardinality(Submitted)

\* One call discarded, one executing, one waiting.
C20_Witness ==
    /\ getQueueSize = 1 /\ getPendingCount = 1
    /\ Cardinality(hist.discarded) = 1

\* The kinds of error the geocoding documentation names.
Taxonomy == {"TimeoutError", "NetworkError", "RateLimitError", "GeocodingError"}

\* The promise of call c was rejected.
Rejected(c) == calls[c].promise.tag = "error"

\* C21 as stated: every error with which geocode or reverseGeocode rejects
\* is a BmltQueryError whose kind is one of the taxonomy, with a message.
C21_AllBmltQueryErrors ==
    \A c \in Calls :
       Rejected(c) =>
          /\ calls[c].promise.name = "BmltQueryError"
          /\ calls[c].promise.type \in Taxonomy
          /\ calls[c].promise.msg # ""

\* C21, amended: every error with which geocode or reverseGeocode rejects has
\* a message and is one of: a plain Error whose name is a kind of the
\* taxonomy (no BmltQueryError type), the BmltQueryError of type
\* GeocodingError that geocode throws for an empty result set, or the
\* SyntaxError of an unparseable body, which carries no kind; when the last
\* response had a status of 400 or more the error carries that status.
C21_NamedErrors ==
    \A c \in Calls :
       Rejected(c) =>
          LET e == calls[c].promise
          IN /\ e.msg # ""
             /\ \/ e.name \in Taxonomy /\ e.type = ""
                \/ /\ e.name = "BmltQueryError" /\ e.type = GEOCODING_ERROR
                   /\ calls[c].kind = "geocode"
                \/ e.name = "SyntaxError" /\ e.type = ""
             /\ calls[c].httpStatus >= 400 =>
                   e.status = calls[c].httpStatus /\ e.name \in Taxonomy

\* A call rejected with the SyntaxError of an unparseable body.
C21_Witness ==
    \E c \in Calls : Rejected(c) /\ calls[c].promise.name = "SyntaxError"

\* The attempts of call c that have failed so far.
FailedAttempts(c) ==
    IF calls[c].state \in {"retrying", "failed"} THEN calls[c].attempts
    ELSE IF calls[c].state \in {"attempting", "resolved"} THEN calls[c].attempts - 1
    ELSE 0

AttemptBeginsInStep(c) == calls'[c].attempts > calls[c].attempts

\* C27: with the default concurrency of 1 a call keeps the queue's slot from
\* its first attempt until it settles, its backoff waits included: the slot
\* is counted while a call waits to retry, and no attempt of one call begins
\* while another call has started and not settled.
C27_SlotHeldAcrossRetries ==
    /\ [](pq.pending = Cardinality(InFlight))
    /\ [](\A c \in Calls :
            calls[c].state = "retrying" =>
               /\ pq.pending = concurrency
               /\ \A d \in Calls \ {c} : ~Started(d) \/ Settled(d))
    /\ [][\A c \in Calls :
            AttemptBeginsInStep(c) =>
               \A d \in Calls \ {c} :
                  calls'[d].state \notin {"attempting", "retrying"}]_vars

\* A call is half-way through a backoff wait while another call, submitted
\* after it, waits in the queue.
C27_Witness ==
    \E c, d \in Calls :
       /\ calls[c].state = "retrying" /\ calls[c].waited > 0 /\ calls[c].timer > 0
       /\ calls[d].state = "queued" /\ d \in Range(pq.queue)

\* C28: batchGeocode returns only when the call of every address has
\* settled; while one of its addresses is discarded by clearQueue (which is
\* for ever) the batch promise stays unsettled; and a batch none of whose
\* addresses is discarded eventually returns.
C28_BatchWaitsForAll ==
    /\ [](batch.state \in {"returned", "rejected"} =>
             \A c \in batch.members : Settled(c))
    /\ []((\E c \in batch.members : Discarded(c)) => batch.state = "waiting")
    /\ (batch.state = "waiting") ~>
          (batch.state = "returned" \/ \E c \in batch.members : Discarded(c))

\* The first address of a batch settled, the second was discarded by
\* clearQueue: the batch still waits.
C28_Witness ==
    /\ batch.state = "waiting" /\ batch.members = {1, 2}
    /\ Settled(1) /\ Discarded(2)

\* A step taken by an operation or a queue handler of the second instance,
\* and one taken by the first instance.
PeerOperation ==
    \/ peerGeocode
    \/ \E c \in PeerCalls : peerSettle(c)
    \/ peerIntervalTick
    \/ peerResumeInterval
    \/ peerClearQueue
    \/ \E n \in 1..MaxConcurrency : peerSetConcurrency(n)

FirstOperation ==
    \/ \E r \in 0..MaxRetries : geocode(r)
    \/ \E c \in Calls, resp \in QueueResponses : HttpResponse(c, resp)
    \/ \E c \in Calls : HttpTimeout(c)
    \/ IntervalTick
    \/ ResumeInterval
    \/ clearQueue

\* C22: each GeocodingService has a queue of its own: a call, clearQueue,
\* setConcurrency or queue event of one instance leaves the other instance's
\* queue (size, in-flight count, cap, interval count and timers) and calls
\* as they are, and a call submitted to an instance whose own queue is empty
\* and whose own caps allow a start begins at once, whatever the other
\* instance has in flight.
C22_IndependentQueues ==
    /\ [][PeerOperation => pq' = pq /\ calls' = calls]_vars
    /\ [][FirstOperation => peer' = peer]_vars
    /\ [][\A c \in PeerCalls :
             /\ peer.calls[c] = "idle" /\ peer'.calls[c] # "idle"
             /\ Len(peer.pq.queue) = 0
             /\ peer.pq.pending < peer.pq.concurrency
             /\ peer.pq.intervalCount < peer.pq.intervalCap
             => peer'.calls[c] = "running"]_vars

\* The first instance has a call executing and one waiting at a cap of 1;
\* the second, its cap raised to 2, finished one call and executes another.
C22_Witness ==
    /\ Cardinality(InFlight) = 1 /\ Len(pq.queue) = 1 /\ pq.concurrency = 1
    /\ peer.pq.concurrency = 2
    /\ peer.calls[1] = "done" /\ peer.calls[2] = "running"

\* The search call was rejected by makeRequest: on the endpoint/format check
\* of a plain searchMeetings call, or after its request was issued.
RejectedByMakeRequest ==
    /\ client.state = "rejected"
    /\ client.requests > 0 \/ client.kind = "plain"

\* C23: the type of an error built from an HTTP status: 500 and above is
\* ServerError, 401 and 403 AuthenticationError, 429 RateLimitError, any other
\* status in 400..499 ClientError, a status below 400 or no status ApiError;
\* the error keeps the status, and its type is ServerError exactly when
\* isServerError() holds.
C23_StatusToType ==
    RejectedByMakeRequest /\ ~client.resp.aborted /\ ~client.resp.net =>
       LET s == IF client.requests > 0 THEN client.resp.status ELSE 0
           e == client.outcome
       IN /\ (e.type = SERVER_ERROR) <=> isServerError(e)
          /\ IF (s >= 200 /\ s <= 299) \/ s = 0
             THEN e.type = API_ERROR /\ e.status = 0
             ELSE /\ e.status = s
                  /\ s >= 500 => e.type = SERVER_ERROR
                  /\ s \in {401, 403} => e.type = AUTHENTICATION_ERROR
                  /\ s = 429 => e.type = RATE_LIMIT_ERROR
                  /\ s \in (400..499) \ {401, 403, 429} => e.type = CLIENT_ERROR
                  /\ s < 400 => e.type = API_ERROR

\* A directory request answered with status 403.
C23_Witness ==
    /\ RejectedByMakeRequest /\ client.resp.status = 403
    /\ client.outcome.type = AUTHENTICATION_ERROR
    /\ ~isServerError(client.outcome) /\ isClientError(client.outcome)

\* C24: searchMeetingsByAddress issues its directory request only after the
\* geocoding call resolved, and with the coordinates it resolved to; on a
\* client without geocoding, and when the geocoding call fails, the search
\* call rejects (with the geocoding error) and no directory request is
\* issued.
C24_GeocodeThenSearch ==
    /\ [](client.kind = "address" /\ client.call = NoCall =>
             /\ client.state = "rejected" /\ client.requests = 0
             /\ client.outcome.msg = "Geocoding is not enabled")
    /\ [](client.kind = "address" /\ client.call # NoCall =>
             /\ ~Settled(client.call) =>
                   client.state = "geocoding" /\ client.requests = 0
             /\ calls[client.call].promise.tag = "error" =>
                   /\ client.requests = 0
                   /\ client.state \in {"geocoding", "rejected"}
                   /\ client.state = "rejected" =>
                         client.outcome = calls[client.call].promise
             /\ client.requests > 0 =>
                   /\ calls[client.call].state = "resolved"
                   /\ client.lat = calls[client.call].promise.lat
                   /\ client.lon = calls[client.call].promise.lon)
    /\ [][client'.kind = "address" /\ client'.requests > client.requests =>
             Settled(client.call) /\ calls[client.call].promise.tag = "value"]_vars

\* The geocoding call resolved on its second attempt, then the directory
\* request was made with its coordinates and answered.
C24_Witness ==
    /\ client.kind = "address" /\ client.state = "resolved"
    /\ client.requests = 1
    /\ calls[client.call].attempts = 2
    /\ client.lat = Num(45) /\ client.lon = Num(0 - 73)

\* The latitude passed to searchMeetingsByCoordinates is a number outside
\* [-90, 90].
LatitudeOutOfRange ==
    /\ client.kind = "coordinates"
    /\ Lt(client.argLat, 0 - 90) \/ Gt(client.argLat, 90)

C30_DirectoryErrors ==
    RejectedByMakeRequest =>
       LET e == client.outcome
           resp == client.resp
       IN /\ e.name = "BmltQueryError"
          /\ IF client.requests = 0
             THEN e.type = API_ERROR /\ e.status = 0 /\ client.format = "csv"
             ELSE IF resp.aborted THEN e.type = TIMEOUT_ERROR /\ e.status = 0
             ELSE IF resp.net THEN e.type = NETWORK_ERROR /\ e.status = 0
             ELSE IF ~Ok(Response(resp.status))
             THEN /\ e.type = createApiError("HTTP ", resp.status).type
                  /\ e.status = resp.status
                  /\ e.msg = "HTTP "
             ELSE /\ ~resp.parseable
                  /\ e.type = API_ERROR /\ e.status = 0

\* A search by address whose directory request was answered with status 503.
C30_Witness ==
    /\ RejectedByMakeRequest /\ client.kind = "address"
    /\ client.resp.status = 503
    /\ client.outcome.type = SERVER_ERROR /\ client.outcome.status = 503

====
